---- MODULE Spec2Model ----
(***************************************************************************)
(* A model of the YCSB workload driver (src/src/lib.rs): the lock-free     *)
(* acknowledgement tracker `Acknowledged`, the per-thread `Runner` that    *)
(* selects keys against it, the `Key` codec and the `Loader` partition.    *)
(*                                                                         *)
(* The tracker is shared by the worker threads; every atomic access of     *)
(* the code (fetch_or, load, fetch_max) is one step of the model, and the  *)
(* steps of different threads interleave freely.  The atomics are          *)
(* modelled as sequentially consistent: every load returns the latest      *)
(* value stored.  Machine words are scaled down: a word of `inner` has     *)
(* `width` bits (64 in the code), the array has `len` words (1 << 20 in    *)
(* the code), and a u64 has SeqBits + 1 bits.                              *)
(***************************************************************************)
EXTENDS Integers, FiniteSets, Sequences, TLC

\* ------------------------------------------------------------------ bounds

\* The bit array holds at most MaxBits bits: every shape len x width with
\* len * width <= MaxBits is checked.
MaxBits == 4
\* record_count ranges over 0 .. MaxRecordCount.
MaxRecordCount == 1
\* floor(insert_proportion * operation_count * 2) is 0 or MaxNewKeys.
MaxNewKeys == 2
\* The window argument of next_key_insert ranges over 0 .. MaxWindow.
MaxWindow == 1
\* A key's sequence has SeqBits bits (63 in the code); a u64 has SeqBits + 1.
SeqBits == 4

\* The worker threads sharing one Acknowledged.
Threads == {1, 2}
\* record_count of the load phase is in 0 .. MaxLoadRecords
MaxLoadRecords == 5
\* thread_count is in 1 .. MaxLoadThreads
MaxLoadThreads == 3
\* a proportion is a weight in 0 .. MaxWeight
MaxWeight == 1
\* the bit array of a fair run holds at most LiveBits bits
LiveBits == 2

\* ------------------------------------------------------- machine arithmetic

RECURSIVE Pow2(_)
Pow2(n) == IF n = 0 THEN 1 ELSE 2 * Pow2(n - 1)

\* u64::MAX + 1 of the scaled machine.
U64 == Pow2(SeqBits + 1)

\* Option::None, and a thread that panicked: no u64 has these values.
None == 0 - 1
Panic == 0 - 2

Bit(w, j) == (w \div Pow2(j)) % 2

\* For fetch_or, a fetch_xor: a bit that was set is cleared.
fetch_xor(w, j) == IF Bit(w, j) = 1 THEN w - Pow2(j) ELSE w + Pow2(j)

\* AtomicU64::store(1 << j) in the place of fetch_or: the new value.
fetch_store(w, j) == Pow2(j)

\* AtomicU64::fetch_or(1 << j): the new value of the word.
fetch_or(w, j) == IF Bit(w, j) = 1 THEN w ELSE w + Pow2(j)

\* AtomicU64::fetch_add(v) in the place of fetch_max: the new value.
fetch_add(old, v) == old + v

\* AtomicU64::fetch_max(v): the new value.
fetch_max(old, v) == IF v > old THEN v ELSE old

\* For trailing_ones, u64::trailing_zeros of a word of WordBits bits.
RECURSIVE trailing_zeros_of(_, _)
trailing_zeros_of(w, n) ==
    IF n = 0 \/ w % 2 = 1 THEN 0 ELSE 1 + trailing_zeros_of(w \div 2, n - 1)

trailing_zeros(w) == trailing_zeros_of(w, MaxBits)

\* u64::trailing_ones.
RECURSIVE trailing_ones(_)
trailing_ones(w) == IF w % 2 = 1 THEN 1 + trailing_ones(w \div 2) ELSE 0

\* For checked_sub, u64::saturating_sub.
saturating_sub(a, b) == IF a >= b THEN a - b ELSE 0

\* u64::checked_sub.
checked_sub(a, b) == IF a >= b THEN a - b ELSE None

\* a - b and a + b on u64: with overflow checks (a debug build) an overflow
\* panics, without them (a release build) the result wraps.
sub_u64(a, b, checks) ==
    IF a = Panic THEN Panic
    ELSE IF a >= b THEN a - b
    ELSE IF checks THEN Panic ELSE a - b + U64

add_u64(a, b, checks) ==
    IF a = Panic THEN Panic
    ELSE IF a + b < U64 THEN a + b
    ELSE IF checks THEN Panic ELSE a + b - U64

\* ---------------------------------------------------------------- Key codec

Ordered == "Ordered"
Hashed == "Hashed"
InsertOrder == {Ordered, Hashed}

HASHED == Pow2(SeqBits)

KeyNew(order, seq) ==
    IF order = Hashed /\ Bit(seq, SeqBits) = 0 THEN seq + HASHED ELSE seq

\* Key::sequence without the mask: the whole encoding.
sequence_raw(key) == key

\* Key::sequence: the encoding without the hashed bit.
sequence(key) == IF Bit(key, SeqBits) = 1 THEN key - HASHED ELSE key

\* ------------------------------------------------------------------- state

RequestDistribution == {"Latest", "Uniform", "Zipfian"}

VARIABLES
    \* Acknowledged (shared by every thread)
    len,                  \* inner.len(): the number of words
    width,                \* the bits of a word
    inner,                \* inner[i]: the i-th word
    hint,                 \* the word index a scan starts at
    \* Workload / Runner configuration (the same for every thread)
    record_count,
    keys_total,
    request_distribution,
    insert_order,
    overflow_checks,      \* TRUE: overflow panics (debug), FALSE: it wraps
    residues,             \* what hasher.finish() % keys_total can come to
    workers,              \* the threads that run
    \* per thread
    pc,                   \* where the thread's current call stands
    call,                 \* the Runner method called last (or running)
    pos,                  \* next(): the word index of the scan
    window,               \* next_key_inner: its window argument
    m,                    \* next_key_inner: the value acked.max() returned
    ret,                  \* the key the last call returned
    \* Loader, per thread id (None: not built)
    thread_count,         \* the thread_count every loader is built with
    next_key,             \* next_key[id]: the loader's cursor
    last_key,             \* last_key[id]: the end of the loader's range
    \* Discrete<Operation>, the operation chooser of a Runner
    proportion,           \* proportion[i]: the weight of the i-th operation
    operation,            \* the operation next_operation returned last
    \* Key
    key_input,            \* the sequence a key is built from
    key_new,              \* the key Key::new built
    key_output,           \* what Key::sequence returned for it
    \* history, read by the properties only
    acks,                 \* the indices passed to Acknowledged::acknowledge
    arg,                  \* the key the thread's last call acknowledged
    again,                \* the call repeats the acknowledge before it
    high,                 \* the largest value max() has returned so far
    loaded,               \* loaded[id]: the keys the loader has returned
    drained               \* drained[id]: the loader has returned nothing

trackerVars == <<len, width, inner, hint>>
configVars == <<record_count, keys_total, request_distribution, insert_order,
                overflow_checks, residues, workers>>
threadVars == <<pc, call, pos, window, m, ret>>
historyVars == <<acks, arg, again, high>>
loaderVars == <<thread_count, next_key, last_key, loaded, drained>>
chooserVars == <<proportion, operation>>
codecVars == <<key_input, key_new, key_output>>
\* What the key selection and the acknowledgements of a Runner leave alone.
restVars == <<loaderVars, chooserVars, codecVars>>
vars == <<trackerVars, configVars, threadVars, historyVars, restVars>>

\* The capacity of the bit array, in bits.
Capacity == len * width

\* The array shapes of at most MaxBits bits.
Shapes == {s \in (1 .. MaxBits) \X (1 .. MaxBits) : s[1] * s[2] <= MaxBits}

\* Acknowledged::new: hint and every word are 0.
AcknowledgedNew ==
    /\ \E s \in Shapes : len = s[1] /\ width = s[2]
    /\ inner = [i \in 0 .. len - 1 |-> 0]
    /\ hint = 0

\* Workload::runner: the runner's fields.  Number::uniform(keys_total)
\* fails for keys_total = 0, and no runner is built.
WorkloadRunner ==
    /\ record_count \in 0 .. MaxRecordCount
    /\ \E key_count_new \in {0, MaxNewKeys} :
           keys_total = record_count + key_count_new
    /\ request_distribution \in RequestDistribution
    /\ request_distribution = "Uniform" => keys_total > 0
    /\ insert_order \in InsertOrder
    /\ overflow_checks \in BOOLEAN

\* The thread ids a loader can have.
LoaderIds == 0 .. MaxLoadThreads - 1

\* No loader is built.
LoadersNone ==
    /\ next_key = [id \in LoaderIds |-> None]
    /\ last_key = [id \in LoaderIds |-> None]
    /\ loaded = [id \in LoaderIds |-> {}]
    /\ drained = [id \in LoaderIds |-> FALSE]

\* The operations, in the order Workload::runner lists them.
Operation ==
    <<"Read", "Update", "Scan", "Insert", "ReadModifyWrite", "Delete">>

\* No operation chooser is built.
ChooserNone ==
    /\ proportion = [i \in DOMAIN Operation |-> 0]
    /\ operation = "none"

\* No key is built.
CodecNone == key_input = 0 /\ key_new = None /\ key_output = None

\* No thread has called anything yet.
ThreadsIdle ==
    /\ pc = [t \in Threads |-> "idle"]
    /\ call = [t \in Threads |-> "none"]
    /\ pos = [t \in Threads |-> 0]
    /\ window = [t \in Threads |-> 0]
    /\ m = [t \in Threads |-> None]
    /\ ret = [t \in Threads |-> None]
    /\ acks = {}
    /\ arg = [t \in Threads |-> None]
    /\ again = [t \in Threads |-> FALSE]
    /\ high = 0

\* ---------------------------------------------------- Acknowledged, by step

\* A thread begins a call: what the previous one left is dropped.
Begin(t, name, p) ==
    /\ pc[t] = "idle"
    /\ pc' = [pc EXCEPT ![t] = p]
    /\ call' = [call EXCEPT ![t] = name]
    /\ ret' = [ret EXCEPT ![t] = None]

\* One iteration of the find_map of next() loads word pos[t]: a word of
\* 64 trailing ones moves the scan on, and past the last word expect()
\* panics; any other word ends the scan at (pos[t], trailing_ones).

\* next(): a word with any trailing one is taken for full.
ScanFullFromOne(t) == trailing_ones(inner[pos[t]]) >= 1

\* next(): no word is taken for full.
ScanNeverFull(t) == FALSE

\* next(): the word loaded is all ones (trailing_ones() = 64).
ScanFull(t) == trailing_ones(inner[pos[t]]) = width

\* next(): the word loaded is the last of the array.
ScanEnd(t) == pos[t] + 1 = len

\* A thread in the middle of Acknowledged::acknowledge.
Acknowledging(t) == pc[t] \in {"ack_hint", "ack_scan", "ack_max"}

\* Runner::acknowledge(key): a key below record_count returns at once;
\* otherwise Acknowledged::acknowledge(index) sets the bit with fetch_or.
\* The call repeats the one before it when the thread's last call
\* acknowledged the same key and no other acknowledge is under way.
RunnerAcknowledge(t, key) ==
    LET index == checked_sub(sequence(key), record_count) IN
    /\ index = None \/ index < Capacity
    /\ arg' = [arg EXCEPT ![t] = key]
    /\ IF index = None
       THEN /\ Begin(t, "acknowledge", "idle")
            /\ again' = [again EXCEPT ![t] = FALSE]
            /\ UNCHANGED <<inner, acks>>
       ELSE /\ Begin(t, "acknowledge", "ack_hint")
            /\ inner' = [inner EXCEPT ![index \div width] =
                                          fetch_or(@, index % width)]
            /\ acks' = acks \cup {index}
            /\ again' = [u \in Threads |->
                            /\ u = t
                            /\ arg[t] = key
                            /\ \A v \in Threads : ~Acknowledging(v)]
    /\ UNCHANGED <<len, width, hint, configVars, restVars, pos, window, m, high>>

\* acknowledge -> next(): self.hint.load.
AckLoadHint(t) ==
    /\ pc[t] = "ack_hint"
    /\ pc' = [pc EXCEPT ![t] = "ack_scan"]
    /\ pos' = [pos EXCEPT ![t] = hint]
    /\ UNCHANGED <<trackerVars, configVars, restVars, call, window, m, ret, historyVars>>

\* acknowledge -> next(): row.load.
AckScan(t) ==
    /\ pc[t] = "ack_scan"
    /\ pc' = [pc EXCEPT ![t] = IF ~ScanFull(t) THEN "ack_max"
                               ELSE IF ScanEnd(t) THEN "panicked" ELSE @]
    /\ pos' = [pos EXCEPT ![t] = IF ~ScanFull(t) THEN @
                                 ELSE IF ScanEnd(t) THEN 0 ELSE @ + 1]
    /\ UNCHANGED <<trackerVars, configVars, restVars, call, window, m, ret, historyVars>>

\* acknowledge: self.hint.fetch_max(hint), and the call returns.
AckFetchMax(t) ==
    /\ pc[t] = "ack_max"
    /\ hint' = fetch_max(hint, pos[t])
    /\ pc' = [pc EXCEPT ![t] = "idle"]
    /\ pos' = [pos EXCEPT ![t] = 0]
    /\ UNCHANGED <<len, width, inner, configVars, restVars, call, window, m, ret,
                   historyVars>>

\* ------------------------------------------------------- Runner, key choice

\* next_key_inner(rng, window), up to the call of acked.max(): the operands
\* are evaluated left to right, so record_count - 1 comes first.
NextKeyInner(t, name, w) ==
    LET ok == sub_u64(record_count, 1, overflow_checks) # Panic IN
    /\ Begin(t, name, IF ok THEN "key_hint" ELSE "panicked")
    /\ window' = [window EXCEPT ![t] = IF ok THEN w ELSE 0]
    /\ arg' = [arg EXCEPT ![t] = None]
    /\ again' = [again EXCEPT ![t] = FALSE]
    /\ UNCHANGED <<trackerVars, configVars, restVars, pos, m, acks, high>>

\* Runner::next_key_read(rng).
NextKeyRead(t) == NextKeyInner(t, "next_key_read", 0)

\* Runner::next_key_insert(rng, window).
NextKeyInsert(t, w) == NextKeyInner(t, "next_key_insert", w)

\* max() -> next(): self.hint.load.
MaxLoadHint(t) ==
    /\ pc[t] = "key_hint"
    /\ pc' = [pc EXCEPT ![t] = "key_scan"]
    /\ pos' = [pos EXCEPT ![t] = hint]
    /\ UNCHANGED <<trackerVars, configVars, restVars, call, window, m, ret, historyVars>>

\* For max, the word index taken for the bit index.
max_unscaled(i, j) == i + j

\* max(): i * 64 + j for the (i, j) the scan of next() ended at.
max(i, j) == i * width + j

\* max() -> next(): row.load; when the scan ends, max() returns.
MaxScan(t) ==
    /\ pc[t] = "key_scan"
    /\ IF ScanFull(t)
       THEN /\ pc' = [pc EXCEPT ![t] = IF ScanEnd(t) THEN "panicked" ELSE @]
            /\ pos' = [pos EXCEPT ![t] = IF ScanEnd(t) THEN 0 ELSE @ + 1]
            /\ window' = [window EXCEPT ![t] = IF ScanEnd(t) THEN 0 ELSE @]
            /\ UNCHANGED <<m, high>>
       ELSE LET v == max(pos[t], trailing_ones(inner[pos[t]])) IN
            /\ pc' = [pc EXCEPT ![t] = "key_draw"]
            /\ pos' = [pos EXCEPT ![t] = 0]
            /\ m' = [m EXCEPT ![t] = v]
            /\ high' = IF v > high THEN v ELSE high
            /\ UNCHANGED window
    /\ UNCHANGED <<trackerVars, configVars, restVars, call, ret, acks, arg, again>>

\* let max = self.record_count as u64 - 1 + self.acked.max() + window.
KeyMax(t) ==
    add_u64(add_u64(sub_u64(record_count, 1, overflow_checks), m[t],
                    overflow_checks),
            window[t], overflow_checks)

\* Number::Zipfian::next for count n: 0, 1, or count * (...)^alpha rounded
\* down, which floating point lets reach count itself.  zeta(0) = 0 and
\* zeta(1) = 1 leave only 0, and zeta(2) = cutoff_1 leaves 0 and 1.
ZipfianNext(n) == IF n <= 1 THEN {0} ELSE IF n = 2 THEN {0, 1} ELSE 0 .. n

\* Number::Uniform::next for count n, were the range 1 ..= n.
UniformFromOne(n) == 1 .. n

\* Number::Uniform::next for count n.
UniformNext(n) == 0 .. n - 1

\* RapidHasher: some u64 for every input.
HashValues == 0 .. U64 - 1

\* Every value hasher.finish() % keys_total can have.
AllResidues ==
    IF keys_total = 0 THEN {} ELSE {h % keys_total : h \in HashValues}

\* The hasher is left open: a draw may hash to any residue, which covers
\* every hasher at once.
HasherOpen == residues = AllResidues

\* The hasher is one function: over the values the key chooser draws it
\* yields some set of residues, the same at every draw.
HasherFixed == residues \in (SUBSET AllResidues) \ {{}}

\* The sequences one turn of the loop can break with for the bound b
\* (Panic: hasher.finish() % 0 panics).
Accepted(b) ==
    CASE request_distribution = "Uniform" ->
             {z \in UniformNext(keys_total) : z <= b}
      [] request_distribution = "Latest" ->
             {checked_sub(b, z) : z \in ZipfianNext(keys_total)} \ {None}
      [] request_distribution = "Zipfian" ->
             IF keys_total = 0 THEN {Panic}
             ELSE {k \in residues : k <= b}

\* Whether one turn of the loop can go round again for the bound b.
Rejected(b) ==
    CASE request_distribution = "Uniform" ->
             \E z \in UniformNext(keys_total) : z > b
      [] request_distribution = "Latest" ->
             \E z \in ZipfianNext(keys_total) : checked_sub(b, z) = None
      [] request_distribution = "Zipfian" ->
             keys_total > 0 /\ \E k \in residues : k > b

\* next_key_inner ends: its locals are dropped.
Finish(t, p, key) ==
    /\ pc' = [pc EXCEPT ![t] = p]
    /\ window' = [window EXCEPT ![t] = 0]
    /\ m' = [m EXCEPT ![t] = None]
    /\ ret' = [ret EXCEPT ![t] = key]
    /\ UNCHANGED <<trackerVars, configVars, restVars, call, pos, historyVars>>

\* One turn of the loop that breaks: Key::new(insert_order, key) is returned.
\* The sum that gives max may panic instead, and so may the turn.
KeyAccept(t) ==
    /\ pc[t] = "key_draw"
    /\ IF KeyMax(t) = Panic
       THEN Finish(t, "panicked", None)
       ELSE \E key \in Accepted(KeyMax(t)) :
                IF key = Panic
                THEN Finish(t, "panicked", None)
                ELSE Finish(t, "idle", KeyNew(insert_order, key))

\* One turn of the loop that does not break: the draw is dropped.
KeyReject(t) ==
    /\ pc[t] = "key_draw"
    /\ KeyMax(t) # Panic
    /\ Rejected(KeyMax(t))
    /\ UNCHANGED vars

\* The keys a harness can acknowledge.  Key::new is private, so every key
\* comes from a Loader or a Runner of the workload and has its insert
\* order; its sequence is any whose index lies within the capacity.
AckKeys == {KeyNew(insert_order, s) : s \in 0 .. record_count + Capacity - 1}

Next ==
    \/ \E t \in workers, key \in AckKeys : RunnerAcknowledge(t, key)
    \/ \E t \in workers : AckLoadHint(t)
    \/ \E t \in workers : AckScan(t)
    \/ \E t \in workers : AckFetchMax(t)
    \/ \E t \in workers : NextKeyRead(t)
    \/ \E t \in workers, w \in 0 .. MaxWindow : NextKeyInsert(t, w)
    \/ \E t \in workers : MaxLoadHint(t)
    \/ \E t \in workers : MaxScan(t)
    \/ \E t \in workers : KeyAccept(t)
    \/ \E t \in workers : KeyReject(t)

\* The workload two threads share: the insert order and the request
\* distribution are the defaults (mod default), the counts are scaled down,
\* and there are inserts.
SharedWorkload ==
    /\ record_count = MaxRecordCount
    /\ keys_total = record_count + MaxNewKeys
    /\ request_distribution = "Zipfian"
    /\ insert_order = Hashed
    /\ overflow_checks

\* One thread runs every workload, and all of them run the default one.
Init ==
    /\ AcknowledgedNew
    /\ WorkloadRunner
    /\ HasherOpen
    /\ \/ workers = {1}
       \/ workers = Threads /\ SharedWorkload
    /\ ThreadsIdle
    /\ thread_count = Cardinality(workers)
    /\ LoadersNone
    /\ ChooserNone
    /\ CodecNone

Spec == Init /\ [][Next]_vars

\* ------------------------------------------------ reads under a fair source
\* The thread that reads keys, and the thread that acknowledges meanwhile.
Readers == {1}
Ackers == {2}

NextLive ==
    \/ \E t \in Ackers, key \in AckKeys : RunnerAcknowledge(t, key)
    \/ \E t \in Ackers : AckLoadHint(t)
    \/ \E t \in Ackers : AckScan(t)
    \/ \E t \in Ackers : AckFetchMax(t)
    \/ \E t \in Readers : NextKeyRead(t)
    \/ \E t \in Readers : MaxLoadHint(t)
    \/ \E t \in Readers : MaxScan(t)
    \/ \E t \in Readers : KeyAccept(t)
    \/ \E t \in Readers : KeyReject(t)

\* A workload with pre-loaded records, of any request distribution, with a
\* hasher that is one function.
InitLive ==
    /\ \E s \in Shapes :
           s[1] * s[2] <= LiveBits /\ len = s[1] /\ width = s[2]
    /\ inner = [i \in 0 .. len - 1 |-> 0]
    /\ hint = 0
    /\ WorkloadRunner
    /\ record_count >= 1
    /\ overflow_checks
    /\ IF request_distribution = "Zipfian" THEN HasherFixed ELSE HasherOpen
    /\ workers = Threads
    /\ ThreadsIdle
    /\ thread_count = Cardinality(workers)
    /\ LoadersNone
    /\ ChooserNone
    /\ CodecNone

\* The reader's thread is scheduled, and its random source is fair: a value
\* the loop breaks with, if there is one, is drawn in the end.
FairReader ==
    \A t \in Readers :
        /\ WF_vars(MaxLoadHint(t))
        /\ WF_vars(MaxScan(t))
        /\ WF_vars(KeyAccept(t))

SpecLive == InitLive /\ [][NextLive]_vars /\ FairReader

\* -------------------------------------------------------------- the Loader
\* Workload::loader: the keys of one loader, with the ceiling of the
\* quotient.
insert_count_ceil == (record_count + thread_count - 1) \div thread_count

\* Workload::loader: the keys of one loader.
insert_count == record_count \div thread_count

\* Workload::loader: the first sequence of the loader of thread_id.
insert_start(thread_id) == insert_count * thread_id

\* Workload::loader(thread_count, thread_id), once for a thread id.
WorkloadLoader(thread_id) ==
    /\ next_key[thread_id] = None
    /\ next_key' = [next_key EXCEPT ![thread_id] = insert_start(thread_id)]
    /\ last_key' = [last_key EXCEPT ![thread_id] =
                                       insert_start(thread_id) + insert_count]
    /\ UNCHANGED <<trackerVars, configVars, threadVars, historyVars,
                   thread_count, loaded, drained, chooserVars, codecVars>>

\* Loader::next_key: the cursor is exhausted only past last_key.
LoaderExhaustedPast(thread_id) == next_key[thread_id] > last_key[thread_id]

\* Loader::next_key: the cursor has reached last_key.
LoaderExhausted(thread_id) == next_key[thread_id] >= last_key[thread_id]

\* Loader::next_key: nothing once the cursor has reached last_key; else the
\* key of the cursor, which moves on by one.
LoaderNextKey(thread_id) ==
    /\ next_key[thread_id] # None
    /\ IF LoaderExhausted(thread_id)
       THEN /\ drained' = [drained EXCEPT ![thread_id] = TRUE]
            /\ UNCHANGED <<next_key, loaded>>
       ELSE /\ next_key' = [next_key EXCEPT ![thread_id] = @ + 1]
            /\ loaded' = [loaded EXCEPT ![thread_id] =
                              @ \cup {KeyNew(insert_order,
                                             next_key[thread_id])}]
            /\ UNCHANGED drained
    /\ UNCHANGED <<trackerVars, configVars, threadVars, historyVars,
                   thread_count, last_key, chooserVars, codecVars>>

NextLoader ==
    \/ \E thread_id \in 0 .. thread_count - 1 : WorkloadLoader(thread_id)
    \/ \E thread_id \in 0 .. thread_count - 1 : LoaderNextKey(thread_id)

\* The load phase: a workload of any record count and insert order, loaded
\* by any number of threads; no runner is at work.
InitLoader ==
    /\ len = 1 /\ width = 1 /\ inner = [i \in {0} |-> 0] /\ hint = 0
    /\ record_count \in 0 .. MaxLoadRecords
    /\ keys_total = record_count
    /\ request_distribution = "Zipfian"
    /\ insert_order \in InsertOrder
    /\ overflow_checks = TRUE
    /\ HasherOpen
    /\ workers = {}
    /\ ThreadsIdle
    /\ thread_count \in 1 .. MaxLoadThreads
    /\ LoadersNone
    /\ ChooserNone
    /\ CodecNone

SpecLoader == InitLoader /\ [][NextLoader]_vars

\* ------------------------------------------------- the operation chooser
\* No tracker is in use and no thread runs.
NoRunner ==
    /\ len = 1 /\ width = 1 /\ inner = [i \in {0} |-> 0] /\ hint = 0
    /\ record_count = 0
    /\ keys_total = 0
    /\ request_distribution = "Zipfian"
    /\ overflow_checks = TRUE
    /\ HasherOpen
    /\ workers = {}
    /\ ThreadsIdle
    /\ thread_count = 1
    /\ LoadersNone

\* WeightedIndex: the sum of the weights up to the i-th.
RECURSIVE CumulativeWeight(_)
CumulativeWeight(i) ==
    IF i = 0 THEN 0 ELSE CumulativeWeight(i - 1) + proportion[i]

\* WeightedIndex: the sum of all weights.
TotalWeight == CumulativeWeight(Len(Operation))

\* WeightedIndex::sample with the cumulative weights compared by <.
WeightedIndexSampleStrict(chosen) ==
    1 + Cardinality({i \in 1 .. Len(Operation) - 1 :
                         CumulativeWeight(i) < chosen})

\* WeightedIndex::sample: for a weight chosen in [0, total), the index after
\* the cumulative weights that are <= chosen (all but the last are kept).
WeightedIndexSample(chosen) ==
    1 + Cardinality({i \in 1 .. Len(Operation) - 1 :
                         CumulativeWeight(i) <= chosen})

\* Discrete::new in Workload::runner: the six proportions are the weights;
\* WeightedIndex::new fails when all of them are 0, and no runner is built.
DiscreteNew ==
    /\ proportion \in [DOMAIN Operation -> 0 .. MaxWeight]
    /\ \E i \in DOMAIN Operation : proportion[i] > 0
    /\ operation = "none"

\* Runner::next_operation: Discrete::next samples an index and returns the
\* value at it.
RunnerNextOperation ==
    /\ \E chosen \in 0 .. TotalWeight - 1 :
           operation' = Operation[WeightedIndexSample(chosen)]
    /\ UNCHANGED <<trackerVars, configVars, threadVars, historyVars,
                   loaderVars, proportion, codecVars>>

NextOperation == RunnerNextOperation

\* A runner of any proportions chooses operations.
InitOperation ==
    /\ NoRunner
    /\ insert_order = Hashed
    /\ DiscreteNew
    /\ CodecNone

SpecOperation == InitOperation /\ [][NextOperation]_vars

\* ------------------------------------------------------------ the Key codec
\* Key::new(order, sequence) for the workload's insert order.
KeyNewCall ==
    /\ key_new = None
    /\ key_new' = KeyNew(insert_order, key_input)
    /\ UNCHANGED <<trackerVars, configVars, threadVars, historyVars,
                   loaderVars, chooserVars, key_input, key_output>>

\* Key::sequence of the key built.
KeySequence ==
    /\ key_new # None
    /\ key_output = None
    /\ key_output' = sequence(key_new)
    /\ UNCHANGED <<trackerVars, configVars, threadVars, historyVars,
                   loaderVars, chooserVars, key_input, key_new>>

NextKey ==
    \/ KeyNewCall
    \/ KeySequence

\* A key is built from any u64 in either insert order.
InitKey ==
    /\ NoRunner
    /\ insert_order \in InsertOrder
    /\ ChooserNone
    /\ key_input \in 0 .. U64 - 1
    /\ key_new = None
    /\ key_output = None

SpecKey == InitKey /\ [][NextKey]_vars

\* -------------------------------------------------------------- properties

\* The largest M such that every index below M is in S.
PrefixOf(S) ==
    CHOOSE M \in 0 .. Capacity : (0 .. M - 1) \subseteq S /\ M \notin S

\* Bit `index` of the array.
BitAt(inr, index) == Bit(inr[index \div width], index % width)

\* The step of thread t in which its max() returns.
MaxReturns(t) == pc[t] = "key_scan" /\ pc'[t] = "key_draw"

\* C1: whatever acknowledge calls have been applied, in any order and by
\* any threads, a max() that returns, returns the largest M such that every
\* index below M has been acknowledged.
C1_MaxIsAcknowledgedPrefix ==
    [][\A t \in Threads : MaxReturns(t) => m'[t] = PrefixOf(acks')]_vars

\* max() has returned 2 to a thread while index 3 was acknowledged and
\* index 2 was not, the indices coming from both threads.
C1_Witness ==
    \E t \in Threads :
        /\ pc[t] = "key_draw" /\ m[t] = 2
        /\ acks = {0, 1, 3}
        /\ workers = Threads
        /\ \E u \in Threads \ {t} : call[u] = "acknowledge" /\ pc[u] = "idle"

\* C2: a key next_key_read returns with a sequence of record_count or more
\* has had its index, and every smaller one, acknowledged.
C2_ReadKeyIsAcknowledged ==
    \A t \in Threads :
        (call[t] = "next_key_read" /\ ret[t] # None
         /\ sequence(ret[t]) >= record_count)
        => (0 .. sequence(ret[t]) - record_count) \subseteq acks

\* C3: the sequences next_key_insert returns are pairwise distinct and each
\* is record_count or more.
C3_InsertKeysFresh ==
    \A t \in Threads :
        (call[t] = "next_key_insert" /\ ret[t] # None)
        => /\ sequence(ret[t]) >= record_count
           /\ \A u \in Threads \ {t} :
                  (call[u] = "next_key_insert" /\ ret[u] # None)
                  => sequence(ret[u]) # sequence(ret[t])

\* C5: a max() that returns, returns no less than any max() that returned
\* before it, so no less than any that returned before it began.
C5_MaxMonotone ==
    [][\A t \in Threads : MaxReturns(t) => m'[t] >= high]_vars

\* Two threads hold the results of max(), one larger than the other.
C5_Witness ==
    \E t, u \in Threads :
        /\ pc[t] = "key_draw" /\ pc[u] = "key_draw"
        /\ 0 < m[u] /\ m[u] < m[t] /\ m[t] = high

\* The index of a key in the tracker, for a key at or above record_count.
IndexOf(key) == sequence(key) - record_count

\* C6: every index below a value max() returned has its bit set.
C6_MaxIsLowerBound ==
    \A t \in Threads :
        pc[t] = "key_draw" => \A k \in 0 .. m[t] - 1 : BitAt(inner, k) = 1

\* max() returned 1 while another thread, in the middle of acknowledge, has
\* set the bit after it.
C6_Witness ==
    \E t, u \in Threads :
        /\ pc[t] = "key_draw" /\ m[t] = 1
        /\ pc[u] = "ack_scan" /\ IndexOf(arg[u]) = 1
        /\ PrefixOf(acks) > m[t]

\* C7: the key next_key_read returns has a sequence of at most
\* record_count + max() - 1, for the max() of the call.
C7_ReadKeyInRange ==
    [][\A t \in Threads :
           (pc[t] = "key_draw" /\ pc'[t] = "idle" /\ call[t] = "next_key_read")
           => /\ 0 <= sequence(ret'[t])
              /\ sequence(ret'[t]) <= record_count + m[t] - 1]_vars

\* The step in which thread t calls Runner::acknowledge.
AcknowledgeCalled(t) ==
    /\ pc[t] = "idle" /\ call'[t] = "acknowledge"
    /\ <<pc[t], call[t], arg[t], ret[t]>> # <<pc'[t], call'[t], arg'[t], ret'[t]>>

\* C8: Runner::acknowledge of a key below record_count changes neither the
\* words nor hint; of any other key it sets the bit of index
\* sequence - record_count and no other, and the steps that end the call
\* change no bit.
C8_AcknowledgeFrame ==
    [][\A t \in Threads :
           /\ AcknowledgeCalled(t) =>
                  IF sequence(arg'[t]) < record_count
                  THEN inner' = inner /\ hint' = hint /\ acks' = acks
                  ELSE /\ hint' = hint
                       /\ acks' = acks \cup {IndexOf(arg'[t])}
                       /\ \A k \in 0 .. Capacity - 1 :
                              BitAt(inner', k) =
                                  IF k = IndexOf(arg'[t])
                                  THEN 1 ELSE BitAt(inner, k)
           /\ (Acknowledging(t) /\ pc'[t] # pc[t]) => inner' = inner]_vars

\* A thread's acknowledge of a pre-loaded key has returned, and the other
\* thread's acknowledge of an inserted key is under way.
C8_Witness ==
    \E t, u \in Threads :
        /\ call[t] = "acknowledge" /\ pc[t] = "idle"
        /\ sequence(arg[t]) < record_count
        /\ Acknowledging(u) /\ IndexOf(arg[u]) = 1 /\ acks = {1}

\* C9: a call of acknowledge that repeats the one before it leaves the
\* words and hint, at every step, as the first call left them.
C9_AcknowledgeIdempotent ==
    [][\A t \in Threads : again'[t] => inner' = inner /\ hint' = hint]_vars

\* A thread has acknowledged, twice in a row, the index that filled word 0.
C9_Witness ==
    \E t \in Threads :
        /\ again[t] /\ pc[t] = "idle" /\ call[t] = "acknowledge"
        /\ hint = 1 /\ width = 2 /\ IndexOf(arg[t]) = 1

\* The sequences of the keys the loader of id has returned.
LoadedSequences(id) == {sequence(key) : key \in loaded[id]}

\* C10: the loaders of thread ids 0 .. thread_count - 1 have the ranges
\* [id * size, (id + 1) * size) with size = floor(record_count /
\* thread_count): each returns the sequences of its range in order, each
\* once, no two loaders return the same sequence, none returns a sequence
\* at or above record_count, and once every loader has returned nothing the
\* sequences returned are exactly those below thread_count * size.
C10_LoadersPartitionPrefix ==
    LET size == record_count \div thread_count
        Built == {id \in 0 .. thread_count - 1 : next_key[id] # None}
    IN  /\ \A id \in Built :
               /\ next_key[id] <= last_key[id]
               /\ last_key[id] = (id + 1) * size
               /\ LoadedSequences(id) = id * size .. next_key[id] - 1
               /\ Cardinality(loaded[id]) = next_key[id] - id * size
               /\ drained[id] => next_key[id] = last_key[id]
               /\ \A s \in LoadedSequences(id) : s < record_count
               /\ \A other \in Built \ {id} :
                      LoadedSequences(id) \cap LoadedSequences(other) = {}
        /\ (\A id \in 0 .. thread_count - 1 : drained[id]) =>
               UNION {LoadedSequences(id) : id \in 0 .. thread_count - 1}
                   = 0 .. thread_count * size - 1

\* Two loaders have loaded five records, two each, with hashed keys; the
\* fifth record is left.
C10_Witness ==
    /\ thread_count = 2 /\ record_count = 5 /\ insert_order = Hashed
    /\ \A id \in {0, 1} : drained[id]
    /\ LoadedSequences(0) = {0, 1} /\ LoadedSequences(1) = {2, 3}

\* C11: every call of Loader::next_key that returns a key returns the key of
\* the cursor, in the workload's insert order, with a sequence that is above
\* every sequence the loader returned before; the first is insert_start and
\* none reaches last_key; a loader that has returned nothing returns
\* nothing from then on; and next_key <= last_key at all times.
C11_LoaderNextKeyInOrder ==
    [][\A id \in 0 .. thread_count - 1 :
           /\ next_key'[id] # None => next_key'[id] <= last_key'[id]
           /\ (next_key[id] = None /\ next_key'[id] # None) =>
                  /\ next_key'[id] = id * (record_count \div thread_count)
                  /\ loaded'[id] = {}
           /\ (next_key[id] # None /\ drained[id]) =>
                  /\ drained'[id]
                  /\ loaded'[id] = loaded[id]
                  /\ next_key'[id] = last_key[id]
           /\ loaded'[id] # loaded[id] =>
                  \E key \in loaded'[id] \ loaded[id] :
                      /\ loaded'[id] = loaded[id] \cup {key}
                      /\ sequence(key) = next_key[id]
                      /\ next_key'[id] = next_key[id] + 1
                      /\ sequence(key) < last_key[id]
                      /\ key = (IF insert_order = Hashed
                                THEN sequence(key) + HASHED
                                ELSE sequence(key))
                      /\ \A old \in loaded[id] : sequence(old) < sequence(key)
           /\ (next_key[id] # None /\ next_key'[id] # next_key[id]) =>
                  loaded'[id] # loaded[id]
           /\ (~drained[id] /\ drained'[id]) =>
                  LoadedSequences(id)
                      = id * (record_count \div thread_count)
                            .. last_key[id] - 1]_vars

\* The second of two loaders has returned its two ordered keys, 2 and 3,
\* and then nothing, while the first has returned one key.
C11_Witness ==
    /\ thread_count = 2 /\ record_count = 5 /\ insert_order = Ordered
    /\ loaded[1] = {2, 3} /\ drained[1] /\ next_key[1] = last_key[1]
    /\ loaded[0] = {0} /\ ~drained[0]

\* The place of an operation in the list of Workload::runner.
IndexOfOperation(op) == CHOOSE i \in DOMAIN Operation : Operation[i] = op

OtherOrder(order) == IF order = Hashed THEN Ordered ELSE Hashed

\* C13: for a sequence below HASHED (2^63 in the code) and either insert
\* order, the key built has its top bit set exactly when the order is
\* Hashed, differs from the key the other order builds from the same
\* sequence, and Key::sequence returns the sequence it was built from.
C13_KeyRoundTrip ==
    (key_input < HASHED /\ key_new # None) =>
        /\ Bit(key_new, SeqBits) = 1 <=> insert_order = Hashed
        /\ key_new # KeyNew(OtherOrder(insert_order), key_input)
        /\ key_output # None => key_output = key_input

\* The largest sequence below HASHED has made the round trip as a hashed
\* key.
C13_Witness ==
    /\ insert_order = Hashed /\ key_input = HASHED - 1
    /\ key_new = U64 - 1 /\ key_output = key_input

\* C14: a scan of max() that stands at a word from which every word to the
\* end of the array is all ones does not return: it moves on, and at the
\* last word it panics, returning no key; and a value max() returns is
\* below the capacity.
C14_ExhaustionPanics ==
    [][\A t \in Threads :
           (pc[t] = "key_scan" /\ <<pc[t], pos[t]>> # <<pc'[t], pos'[t]>>) =>
               /\ (\A i \in pos[t] .. len - 1 :
                       trailing_ones(inner[i]) = width) =>
                      /\ pc'[t] # "key_draw"
                      /\ pos[t] = len - 1 =>
                             pc'[t] = "panicked" /\ ret'[t] = None
                      /\ pos[t] < len - 1 =>
                             pc'[t] = "key_scan" /\ pos'[t] = pos[t] + 1
               /\ pc'[t] = "key_draw" => m'[t] < Capacity]_vars

\* With every bit of a two-word array set, a next_key_read has panicked in
\* its scan.
C14_Witness ==
    \E t \in Threads :
        /\ pc[t] = "panicked" /\ call[t] = "next_key_read"
        /\ record_count > 0 /\ len = 2
        /\ acks = 0 .. Capacity - 1

\* C15: a call of next_key_read made when record_count plus the
\* acknowledged prefix is at least 1 does not fail in the arithmetic of its
\* bound, and the bound it computes is record_count + max() - 1.
C15_BoundWithoutUnderflow ==
    [][\A t \in Threads :
           /\ (/\ pc[t] = "idle" /\ pc'[t] # "idle"
               /\ call'[t] = "next_key_read"
               /\ record_count + PrefixOf(acks) >= 1) =>
                  pc'[t] # "panicked"
           /\ (/\ MaxReturns(t)
               /\ call[t] = "next_key_read"
               /\ record_count + m'[t] >= 1) =>
                  KeyMax(t)' = record_count + m'[t] - 1]_vars

\* C16: in every state, also in the middle of acknowledge calls, every word
\* below hint is all ones: hint is at most the index of the first word with
\* a 0 bit, and a scan from hint passes over no unacknowledged index.
C16_HintIsFloor ==
    /\ hint < len
    /\ \A i \in 0 .. hint - 1 : trailing_ones(inner[i]) = width
    /\ \A k \in 0 .. Capacity - 1 : BitAt(inner, k) = 0 => hint <= k \div width

\* hint has been raised to 1 by one thread while the other, in the middle
\* of its acknowledge, is about to raise it to 1 as well.
C16_Witness ==
    \E t, u \in Threads :
        /\ hint = 1 /\ len = 3
        /\ call[t] = "acknowledge" /\ pc[t] = "idle"
        /\ pc[u] = "ack_max" /\ pos[u] = 1

\* C17: no step changes a bit of the array from 1 to 0; a step that changes
\* a bit is the call of acknowledge by some thread, and the bit is bit
\* index % 64 of word index / 64 for the index of the key acknowledged.
C17_BitsMonotone ==
    [][/\ \A i \in 0 .. len - 1, j \in 0 .. width - 1 :
              Bit(inner[i], j) = 1 => Bit(inner'[i], j) = 1
       /\ inner' # inner =>
              \E t \in Threads :
                  /\ pc[t] = "idle" /\ pc'[t] = "ack_hint"
                  /\ \A i \in 0 .. len - 1, j \in 0 .. width - 1 :
                         Bit(inner'[i], j) # Bit(inner[i], j) =>
                             /\ i = IndexOf(arg'[t]) \div width
                             /\ j = IndexOf(arg'[t]) % width
       /\ \A i \in 0 .. len - 1 : inner'[i] < Pow2(width)]_vars

\* Two threads have each set a bit of the same word, and both bits are set.
C17_Witness ==
    \E t, u \in Threads :
        /\ width = 4 /\ inner[0] = 3
        /\ IndexOf(arg[t]) = 0 /\ pc[t] = "ack_scan"
        /\ IndexOf(arg[u]) = 1 /\ pc[u] = "ack_hint"

\* C18: in Latest mode the key next_key_read returns has the sequence
\* max - z for a value z of the key chooser with z <= max, where max is
\* record_count + max() - 1, the acknowledged frontier of the call.
C18_LatestCountsBack ==
    [][\A t \in Threads :
           (/\ pc[t] = "key_draw" /\ pc'[t] = "idle"
            /\ call[t] = "next_key_read"
            /\ request_distribution = "Latest") =>
               \E z \in ZipfianNext(keys_total) :
                   /\ z <= record_count + m[t] - 1
                   /\ sequence(ret'[t]) = record_count + m[t] - 1 - z]_vars

\* C20: the key next_key_insert(rng, window) returns has a sequence of at
\* most record_count - 1 + max() + window, for the value max() returned in
\* the call.
C20_InsertKeyInWindow ==
    [][\A t \in Threads :
           (/\ pc[t] = "key_draw" /\ pc'[t] = "idle"
            /\ call[t] = "next_key_insert") =>
               /\ 0 <= sequence(ret'[t])
               /\ sequence(ret'[t]) <= record_count - 1 + m[t] + window[t]]_vars

\* C19: with record_count >= 1 and a fair random source, a call of
\* next_key_read returns a key in the end.
C19_ReadReturns ==
    \A t \in Readers : (pc[t] = "key_hint") ~> (pc[t] = "idle")

\* The scan of the call ran off the end of an array with every bit set.
ScanExhausted(t) == pc[t] = "panicked" /\ acks = 0 .. Capacity - 1

\* The hasher yields no residue within the bound of the call.
NoResidueInRange(t) ==
    /\ pc[t] = "key_draw"
    /\ request_distribution = "Zipfian"
    /\ \A k \in residues : k > KeyMax(t)

\* C19, amended: with record_count >= 1 and a fair random source, a call of
\* next_key_read returns a key in the end, unless its scan panics on an
\* array with every bit set or, in Zipfian mode, the hasher yields no
\* residue within the bound of the call.
C19_ReadReturnsUnlessStuck ==
    \A t \in Readers :
        (pc[t] = "key_hint") ~>
            (pc[t] = "idle" \/ ScanExhausted(t) \/ NoResidueInRange(t))

\* A Zipfian read has returned the key of sequence 1 from a hasher that
\* yields the residues 1 and 2 only, after the first insert was
\* acknowledged.
C19_Witness ==
    \E t \in Readers :
        /\ request_distribution = "Zipfian" /\ residues = {1, 2}
        /\ call[t] = "next_key_read" /\ pc[t] = "idle"
        /\ ret[t] # None /\ sequence(ret[t]) = 1
        /\ acks = {0}

====
